---- MODULE Spec2Model ----
(***************************************************************************)
(* Text Paraphraser API (src/app/main.py): the module globals model,       *)
(* tokenizer and device, the retrying loader load_model(), and the two     *)
(* request handlers paraphrase() and health().                             *)
(*                                                                         *)
(* load_model() is modelled statement by statement (each library call may  *)
(* raise), so that a reader can observe the globals between two of its     *)
(* statements and after it raised.  The handlers contain no suspension     *)
(* point and are modelled as one step each; what a handler answered is     *)
(* kept in `last`.                                                         *)
(***************************************************************************)
EXTENDS Integers, Sequences, FiniteSets, TLC

\* ------------------------------------------------------------------ bounds
\* number of load_model() invocations a task makes in a behaviour
MaxCalls == 2

\* ------------------------------------------------------- program constants
max_retries == 3
base_retry_delay == 5
max_length == 256
default_num_return_sequences == 1
default_num_beams == 5
\* temperature is a float; the model counts it in tenths (10 is 1.0)
default_temperature == 10

\* Python None, as the object that is no tokenizer and no model.
None == [id |-> <<>>]

\* Tasks that may run load_model(): the startup hook, and one other caller.
AllTasks == {"startup", "other"}
Tasks == {"startup"}

\* ------------------------------------------------------------------ inputs
Whitespace == {" ", "\t"}

\* Request texts: blank ones (empty, spaces, tab) and non-blank ones with
\* leading and trailing whitespace.
Texts ==
  { <<>>, <<" ">>, <<"\t", " ">>, <<"a">>, <<" ", "a", "\t">> }

\* (num_return_sequences, num_beams, temperature) of the requests.
Params ==
  { [num_return_sequences |-> default_num_return_sequences,
     num_beams |-> default_num_beams, temperature |-> default_temperature],
    [num_return_sequences |-> 2, num_beams |-> default_num_beams, temperature |-> 8],
    [num_return_sequences |-> 2, num_beams |-> 1, temperature |-> default_temperature],
    [num_return_sequences |-> 0, num_beams |-> default_num_beams, temperature |-> 0] }

\* class ParaphraseRequest: text plus the three generation parameters.
ParaphraseRequest(text, p) ==
  [text |-> text, num_return_sequences |-> p.num_return_sequences,
   num_beams |-> p.num_beams, temperature |-> p.temperature]

\* The JSON bodies clients post: with only text, and with every field.
Bodies ==
  { [text |-> text] : text \in Texts }
    \cup { ParaphraseRequest(text, p) : text \in Texts, p \in Params }

Field(body, name, default) == IF name \in DOMAIN body THEN body[name] ELSE default

\* the faulty variant: the beam width defaults to 1
FromBodyOneBeam(body) ==
  [text |-> body.text,
   num_return_sequences |->
     Field(body, "num_return_sequences", default_num_return_sequences),
   num_beams |-> Field(body, "num_beams", 1),
   temperature |-> Field(body, "temperature", default_temperature)]

\* ParaphraseRequest(**body): absent fields take the class defaults
\* (lines 59-62)
FromBody(body) ==
  [text |-> body.text,
   num_return_sequences |->
     Field(body, "num_return_sequences", default_num_return_sequences),
   num_beams |-> Field(body, "num_beams", default_num_beams),
   temperature |-> Field(body, "temperature", default_temperature)]

Requests == { FromBody(body) : body \in Bodies }

NoRequest == ParaphraseRequest(<<>>, CHOOSE p \in Params : TRUE)

\* Token sequences the generation capability may emit for one paraphrase.
SpecialTokens == {"<pad>", "</s>"}
GenSeqs == { <<"<pad>", "x", "</s>">>, <<"<pad>", "y", "x", "</s>">> }

\* ---------------------------------------------------------------- helpers
RECURSIVE LStrip(_)
LStrip(s) == IF s # <<>> /\ Head(s) \in Whitespace THEN LStrip(Tail(s)) ELSE s

RECURSIVE RStrip(_)
RStrip(s) ==
  IF s # <<>> /\ s[Len(s)] \in Whitespace THEN RStrip(SubSeq(s, 1, Len(s) - 1)) ELSE s

\* str.strip()
Strip(s) == RStrip(LStrip(s))

\* the faulty variant: `if not request.text` without strip()
IsBlankNoStrip(text) == text = <<>>

\* `not request.text.strip()` (paraphrase, line 73)
IsBlank(text) == Strip(text) = <<>>

\* the faulty variant: the guard is dropped and every call reloads
NeedsLoadAlways(m, tk) == TRUE

\* `model is None or tokenizer is None` (load_model line 21, paraphrase line 76)
NeedsLoad(m, tk) == m = None \/ tk = None

\* the faulty variant: a constant delay
NextDelayConstant(d) == d

\* `retry_delay *= 2` (line 47)
NextDelay(d) == d * 2

\* the faulty variant: the last attempt sleeps too
MayRetryAlways(a) == a < max_retries

\* `attempt < max_retries - 1` (line 43)
MayRetry(a) == a < max_retries - 1

\* a freshly fetched tokenizer / model object; `by` identifies the fetch
NewTokenizer(by) == [id |-> by]
NewModel(by) == [id |-> by, on_device |-> FALSE, eval_mode |-> FALSE]

\* tokenizer.decode(output, skip_special_tokens=True)
Decode(output) == SelectSeq(output, LAMBDA tok : tok \notin SpecialTokens)

\* the faulty variant: the list is built in reverse
DecodeAllReversed(outputs) ==
  [i \in 1..Len(outputs) |-> Decode(outputs[Len(outputs) + 1 - i])]

\* [tokenizer.decode(output, ...) for output in outputs] (lines 98-101)
DecodeAll(outputs) == [i \in 1..Len(outputs) |-> Decode(outputs[i])]

\* tokenizer(text, truncation=True, max_length=256): one token per
\* character, cut at max_length.
Encode(text) ==
  SubSeq(text, 1, IF Len(text) < max_length THEN Len(text) ELSE max_length)

\* The keyword arguments paraphrase passes to model.generate (lines 89-96).
GenerateArgs(req) ==
  [input_ids |-> Encode(req.text),
   num_return_sequences |-> req.num_return_sequences,
   num_beams |-> req.num_beams,
   temperature |-> req.temperature,
   max_length |-> max_length,
   do_sample |-> TRUE]

NoArgs == [input_ids |-> <<>>, num_return_sequences |-> 0, num_beams |-> 0,
           temperature |-> 0, max_length |-> 0, do_sample |-> FALSE]

\* What model.generate can return for these arguments: one row per
\* requested sequence, and nothing (it raises) when the arguments are not
\* ones the generation capability accepts.
GenerateOutputs(args) ==
  IF /\ args.num_return_sequences >= 1
     /\ args.num_return_sequences <= args.num_beams
     /\ args.temperature > 0
  THEN [1..args.num_return_sequences -> GenSeqs]
  ELSE {}

\* does the word sequence `sub` occur in `s` (Python: sub in s)
Contains(s, sub) ==
  \E i \in 0..(Len(s) - Len(sub)) : SubSeq(s, i + 1, i + Len(sub)) = sub

\* --------------------------------------------------------- error messages
EmptyDetail == <<"Text", "cannot", "be", "empty">>
NotLoadedDetail == <<"Model", "not", "loaded">>
ErrorPrefix == <<"Error", "during", "paraphrasing:">>

\* str(e) of the exception a stage of paraphrase raised
StageError(stage) == <<stage, "failed">>

\* the faulty variant: the underlying message is dropped
GenerationFailedDetailNoMessage(msg) == ErrorPrefix

\* f"Error during paraphrasing: {str(e)}" (line 109)
GenerationFailedDetail(msg) == ErrorPrefix \o msg

\* ------------------------------------------------------------------- state
VARIABLES
  cuda_available, \* what torch.cuda.is_available() answers
  device,         \* global device (line 16)
  model,          \* global model (line 14)
  tokenizer,      \* global tokenizer (line 15)
  pc,             \* per task: the statement of load_model it is at
  attempt,        \* per task: loop variable of load_model (line 26)
  retry_delay,    \* per task: local retry_delay (line 24)
  calls,          \* per task: number of load_model() invocations so far
  attempts,       \* per task: try blocks entered in the current invocation
  sleeps,         \* per task: time.sleep arguments of the current invocation
  failed,         \* per task: the statement that raised, per failed attempt
  result,         \* per task: how the latest invocation ended
  error,          \* per task: str(e) of the exception load_model raised
  readiness,      \* outcome of the latest completed load: Loading/Ready/Failed
  last,           \* the latest request handled and the answer it got
  v_text,         \* TextValidator: the string at hand
  v_source,       \* TextValidator: the argument of the latest filter_text
  v_valid,        \* TextValidator: what is_valid_text(v_text) returned
  v_filters       \* TextValidator: number of filter_text applications

shared == <<cuda_available, device, model, tokenizer>>
loader == <<pc, attempt, retry_delay, calls, attempts, sleeps, failed, result, error,
            readiness>>
validator == <<v_text, v_source, v_valid, v_filters>>
vars == <<cuda_available, device, model, tokenizer, pc, attempt, retry_delay,
          calls, attempts, sleeps, failed, result, error, readiness, last,
          v_text, v_source, v_valid, v_filters>>

NoResponse == [original_text |-> <<>>, paraphrases |-> <<>>, device |-> ""]
NoSnapshot == [status |-> "", model_loaded |-> FALSE, device |-> "",
               cuda_available |-> FALSE]

NoLast ==
  [op |-> "none", req |-> NoRequest, status |-> 0, detail |-> <<>>,
   response |-> NoResponse, snapshot |-> NoSnapshot,
   tok_invoked |-> FALSE, gen_invoked |-> FALSE, gen_args |-> NoArgs,
   outputs |-> <<>>, raised |-> <<>>, readiness |-> "Loading"]

\* device = "cuda" if torch.cuda.is_available() else "cpu" (line 16)
SelectDevice(cuda) == IF cuda THEN "cuda" ELSE "cpu"

\* str(e) of the exception a statement of load_model raised; no exception
LoadError(step) == <<step, "failed">>
NoError == <<>>

\* The service after import of app.main: nothing loaded, no request handled.
InitService ==
  /\ cuda_available \in BOOLEAN
  /\ device = SelectDevice(cuda_available)
  /\ model = None
  /\ tokenizer = None
  /\ pc = [t \in AllTasks |-> "idle"]
  /\ attempt = [t \in AllTasks |-> 0]
  /\ retry_delay = [t \in AllTasks |-> base_retry_delay]
  /\ calls = [t \in AllTasks |-> 0]
  /\ attempts = [t \in AllTasks |-> 0]
  /\ sleeps = [t \in AllTasks |-> <<>>]
  /\ failed = [t \in AllTasks |-> <<>>]
  /\ result = [t \in AllTasks |-> "none"]
  /\ error = [t \in AllTasks |-> NoError]
  /\ readiness = "Loading"
  /\ last = NoLast

\* The validator is not in use.
ValidatorIdle ==
  /\ v_text = <<>>
  /\ v_source = <<>>
  /\ v_valid = "none"
  /\ v_filters = 0

Init == InitService /\ ValidatorIdle

\* ---------------------------------------------------------------- load_model
\* Entry of load_model (lines 19-24): the fast path when both globals are
\* set, otherwise the first attempt of the retry loop.
load_model(t) ==
  /\ pc[t] = "idle"
  /\ calls[t] < MaxCalls
  /\ calls' = [calls EXCEPT ![t] = @ + 1]
  /\ sleeps' = [sleeps EXCEPT ![t] = <<>>]
  /\ failed' = [failed EXCEPT ![t] = <<>>]
  /\ error' = [error EXCEPT ![t] = NoError]
  /\ IF NeedsLoad(model, tokenizer)
     THEN /\ pc' = [pc EXCEPT ![t] = "fetch_tokenizer"]
          /\ attempt' = [attempt EXCEPT ![t] = 0]
          /\ retry_delay' = [retry_delay EXCEPT ![t] = base_retry_delay]
          /\ attempts' = [attempts EXCEPT ![t] = 1]
          /\ result' = [result EXCEPT ![t] = "running"]
     ELSE /\ attempts' = [attempts EXCEPT ![t] = 0]
          /\ result' = [result EXCEPT ![t] = "noop"]
          /\ UNCHANGED <<pc, attempt, retry_delay>>
  /\ UNCHANGED <<shared, readiness, last, validator>>

\* The except clause (lines 42-50) for an exception raised by `step`:
\* sleep and go round again, or re-raise out of load_model after the last
\* attempt.  The globals keep whatever the try block assigned before it raised.
except_(t, step) ==
  /\ failed' = [failed EXCEPT ![t] = Append(@, step)]
  /\ IF MayRetry(attempt[t])
     THEN /\ pc' = [pc EXCEPT ![t] = "sleep"]
          /\ sleeps' = [sleeps EXCEPT ![t] = Append(@, retry_delay[t])]
          /\ UNCHANGED <<result, error, readiness>>
     ELSE /\ pc' = [pc EXCEPT ![t] = "idle"]
          /\ result' = [result EXCEPT ![t] = "raised"]
          /\ error' = [error EXCEPT ![t] = LoadError(step)]
          /\ readiness' = "Failed"
          /\ UNCHANGED sleeps
  /\ UNCHANGED <<attempt, retry_delay, calls, attempts>>

\* The statement completed: on to the next one.
proceed(t, next) ==
  /\ pc' = [pc EXCEPT ![t] = next]
  /\ UNCHANGED <<attempt, retry_delay, calls, attempts, sleeps, failed, result, error,
                 readiness>>

\* the faulty variant: the tokenizer stays in a local variable, the global is
\* never assigned
fetch_tokenizerLocal(t) ==
  /\ pc[t] = "fetch_tokenizer"
  /\ UNCHANGED tokenizer
  /\ \/ proceed(t, "fetch_model")
     \/ except_(t, "fetch_tokenizer")
  /\ UNCHANGED <<cuda_available, device, model, last, validator>>

\* tokenizer = T5Tokenizer.from_pretrained(...) (lines 29-33)
fetch_tokenizer(t) ==
  /\ pc[t] = "fetch_tokenizer"
  /\ \/ /\ tokenizer' = NewTokenizer(<<t, calls[t], attempt[t]>>)
        /\ proceed(t, "fetch_model")
     \/ /\ UNCHANGED tokenizer
        /\ except_(t, "fetch_tokenizer")
  /\ UNCHANGED <<cuda_available, device, model, last, validator>>

\* model = T5ForConditionalGeneration.from_pretrained(...) (lines 34-37)
fetch_model(t) ==
  /\ pc[t] = "fetch_model"
  /\ \/ /\ model' = NewModel(<<t, calls[t], attempt[t]>>)
        /\ proceed(t, "to_device")
     \/ /\ UNCHANGED model
        /\ except_(t, "fetch_model")
  /\ UNCHANGED <<cuda_available, device, tokenizer, last, validator>>

\* model.to(device) (line 38): moves the object the global refers to
to_device(t) ==
  /\ pc[t] = "to_device"
  /\ \/ /\ model' = [model EXCEPT !.on_device = TRUE]
        /\ proceed(t, "eval")
     \/ /\ UNCHANGED model
        /\ except_(t, "to_device")
  /\ UNCHANGED <<cuda_available, device, tokenizer, last, validator>>

\* model.eval() (line 39)
eval(t) ==
  /\ pc[t] = "eval"
  /\ \/ /\ model' = [model EXCEPT !.eval_mode = TRUE]
        /\ proceed(t, "return")
     \/ /\ UNCHANGED model
        /\ except_(t, "eval")
  /\ UNCHANGED <<cuda_available, device, tokenizer, last, validator>>

\* print("Model loaded successfully!"); return (lines 40-41)
load_return(t) ==
  /\ pc[t] = "return"
  /\ pc' = [pc EXCEPT ![t] = "idle"]
  /\ result' = [result EXCEPT ![t] = "returned"]
  /\ readiness' = "Ready"
  /\ UNCHANGED <<shared, attempt, retry_delay, calls, attempts, sleeps, failed, error,
                 last, validator>>

\* time.sleep(retry_delay) is over; retry_delay *= 2 and the next iteration
\* of the for loop (lines 46-47, 26)
sleep_done(t) ==
  /\ pc[t] = "sleep"
  /\ retry_delay' = [retry_delay EXCEPT ![t] = NextDelay(@)]
  /\ attempt' = [attempt EXCEPT ![t] = @ + 1]
  /\ attempts' = [attempts EXCEPT ![t] = @ + 1]
  /\ pc' = [pc EXCEPT ![t] = "fetch_tokenizer"]
  /\ UNCHANGED <<shared, calls, sleeps, failed, result, error, readiness, last,
                 validator>>

\* ---------------------------------------------------------------- paraphrase
\* What `last` records for a paraphrase request: the answer (HTTP status and
\* detail, or the ParaphraseResponse), which capabilities were invoked, what
\* generate returned, and str(e) of the exception the try block raised.
Answered(req, status, detail, response, tok, gen, outputs, raised) ==
  [op |-> "paraphrase", req |-> req, status |-> status, detail |-> detail,
   response |-> response, snapshot |-> NoSnapshot,
   tok_invoked |-> tok, gen_invoked |-> gen,
   gen_args |-> IF gen THEN GenerateArgs(req) ELSE NoArgs,
   outputs |-> outputs, raised |-> raised, readiness |-> readiness]

\* raise HTTPException(status_code=400, ...) (line 74)
RejectedEmpty(req) ==
  Answered(req, 400, EmptyDetail, NoResponse, FALSE, FALSE, <<>>, <<>>)

\* raise HTTPException(status_code=503, ...) (line 77)
ServiceUnavailable(req) ==
  Answered(req, 503, NotLoadedDetail, NoResponse, FALSE, FALSE, <<>>, <<>>)

\* except Exception as e: raise HTTPException(status_code=500, ...)
\* (lines 108-109), for an exception raised at `stage` of the try block
GenerationFailed(req, stage, outputs) ==
  Answered(req, 500, GenerationFailedDetail(StageError(stage)), NoResponse,
           TRUE, stage \in {"generate", "decode"}, outputs, StageError(stage))

\* return ParaphraseResponse(...) (lines 103-107)
Returned(req, outputs) ==
  Answered(req, 200, <<>>,
           [original_text |-> req.text, paraphrases |-> DecodeAll(outputs),
            device |-> device],
           TRUE, TRUE, outputs, <<>>)

\* async def paraphrase(request) (lines 72-109); it has no await, so it runs
\* as one step.  The tokenizer, the move of the inputs to the device, generate
\* and decode may each raise.
paraphrase(req) ==
  /\ IF IsBlank(req.text)
     THEN last' = RejectedEmpty(req)
     ELSE IF NeedsLoad(model, tokenizer)
     THEN last' = ServiceUnavailable(req)
     ELSE \/ last' = GenerationFailed(req, "encode", <<>>)
          \/ last' = GenerationFailed(req, "to_device", <<>>)
          \/ last' = GenerationFailed(req, "generate", <<>>)
          \/ \E outputs \in GenerateOutputs(GenerateArgs(req)) :
               \/ last' = GenerationFailed(req, "decode", outputs)
               \/ last' = Returned(req, outputs)
  /\ UNCHANGED <<shared, loader, validator>>

\* -------------------------------------------------------------------- health
\* the faulty variant: reports unhealthy until the model is there
HealthSnapshotUnhealthy(m, dev, cuda) ==
  [status |-> IF m # None THEN "healthy" ELSE "unhealthy",
   model_loaded |-> m # None, device |-> dev, cuda_available |-> cuda]

\* the dict health() returns (lines 114-119)
HealthSnapshot(m, dev, cuda) ==
  [status |-> "healthy", model_loaded |-> m # None, device |-> dev,
   cuda_available |-> cuda]

\* async def health() (lines 113-119)
health ==
  /\ last' = [op |-> "health", req |-> NoRequest, status |-> 200, detail |-> <<>>,
              response |-> NoResponse,
              snapshot |-> HealthSnapshot(model, device, cuda_available),
              tok_invoked |-> FALSE, gen_invoked |-> FALSE, gen_args |-> NoArgs,
              outputs |-> <<>>, raised |-> <<>>, readiness |-> readiness]
  /\ UNCHANGED <<shared, loader, validator>>

\* ------------------------------------------------------------- specification
Next ==
  \/ \E t \in Tasks : load_model(t)
  \/ \E t \in Tasks : fetch_tokenizer(t)
  \/ \E t \in Tasks : fetch_model(t)
  \/ \E t \in Tasks : to_device(t)
  \/ \E t \in Tasks : eval(t)
  \/ \E t \in Tasks : load_return(t)
  \/ \E t \in Tasks : sleep_done(t)
  \/ \E req \in Requests : paraphrase(req)
  \/ health

Spec == Init /\ [][Next]_vars

\* ------------------------------------------------------------------ claims
\* Vocabulary of the claims, stated independently of the handlers' code.
BlankText(text) == \A i \in 1..Len(text) : text[i] \in Whitespace

\* the handle is fully constructed: tokenizer and model fetched, the model
\* moved to the device and put in eval mode
FullyConstructed ==
  /\ tokenizer # None
  /\ model # None
  /\ model.on_device
  /\ model.eval_mode

NoHandle == model = None /\ tokenizer = None

\* C1: a paraphrase request whose text is empty or only whitespace is
\* answered 400 with a detail containing "cannot be empty", whatever the
\* readiness, and neither the tokenizer nor generate is invoked.
C1_BlankRejected ==
  (last.op = "paraphrase" /\ BlankText(last.req.text)) =>
    /\ last.status = 400
    /\ Contains(last.detail, <<"cannot", "be", "empty">>)
    /\ ~last.tok_invoked
    /\ ~last.gen_invoked

\* a whitespace-only request was rejected while no model is loaded
C1_Witness ==
  /\ last.op = "paraphrase"
  /\ last.req.text = <<"\t", " ">>
  /\ last.status = 400
  /\ last.readiness = "Loading"
  /\ model = None

\* C2: a paraphrase request with non-blank text handled while the load has
\* not completed successfully (not started, in progress, or failed) is
\* answered 503 without invoking the tokenizer or generate.
C2_NotReadyIs503 ==
  (last.op = "paraphrase" /\ ~BlankText(last.req.text) /\ last.readiness # "Ready") =>
    /\ last.status = 503
    /\ ~last.tok_invoked
    /\ ~last.gen_invoked

\* C3: when the first two attempts of load_model fail and the third
\* succeeds, it returns after exactly three attempts and exactly two sleeps,
\* of 5 and then 10, and the handle is ready.
C3_TwoFailuresThenSuccess ==
  \A t \in Tasks :
    (result[t] = "returned" /\ Len(failed[t]) = 2) =>
      /\ attempts[t] = 3
      /\ sleeps[t] = <<5, 10>>
      /\ FullyConstructed
      /\ readiness = "Ready"

C3_Witness ==
  /\ result["startup"] = "returned"
  /\ failed["startup"] = <<"fetch_model", "to_device">>

\* C4: when every attempt fails, load_model makes exactly 3 attempts and
\* raises; the model is then not loaded and a later paraphrase request with
\* non-blank text is answered 503, whichever statement was the failing one.
C4_ExhaustedMeansUnavailable ==
  /\ \A t \in Tasks :
       result[t] = "raised" =>
         /\ attempts[t] = 3
         /\ Len(failed[t]) = 3
         /\ readiness = "Failed"
         /\ model = None
  /\ (last.op = "paraphrase" /\ ~BlankText(last.req.text) /\ last.readiness = "Failed") =>
       last.status = 503

\* C5: a reader sees either no handle at all or a fully constructed one.
C5_NoPartialHandle == NoHandle \/ FullyConstructed

\* C6: health's model_loaded is true exactly when a load_model call has
\* completed successfully.
C6_ModelLoadedIffReady ==
  /\ HealthSnapshot(model, device, cuda_available).model_loaded <=> readiness = "Ready"
  /\ last.op = "health" => (last.snapshot.model_loaded <=> last.readiness = "Ready")

\* C7: a load_model call made while model and tokenizer are both set returns
\* at once: no attempt, no sleep, and model, tokenizer and device unchanged.
C7_AcquireIdempotent ==
  [][\A t \in Tasks :
       (calls'[t] # calls[t] /\ model # None /\ tokenizer # None) =>
         /\ pc'[t] = "idle"
         /\ attempts'[t] = 0
         /\ sleeps'[t] = <<>>
         /\ result'[t] = "noop"
         /\ model' = model
         /\ tokenizer' = tokenizer
         /\ device' = device]_vars

\* a second call found the handle and returned at once
C7_Witness ==
  /\ calls["startup"] = 2
  /\ result["startup"] = "noop"
  /\ pc["startup"] = "idle"

\* C8: an exception raised by encode, generate or decode is answered 500
\* with a detail containing its message; the request leaves model, tokenizer,
\* device and the readiness as they were, and a request can succeed afterwards.
C8_GenerationFailedKeepsHandle ==
  /\ [](  (last.op = "paraphrase" /\ last.raised # <<>>) =>
            /\ last.status = 500
            /\ Contains(last.detail, last.raised)
            /\ ~NeedsLoad(model, tokenizer)
            /\ ENABLED (\E req \in Requests : paraphrase(req) /\ last'.status = 200) )
  /\ [][ (last' # last /\ last'.op = "paraphrase" /\ last'.raised # <<>>) =>
            /\ model' = model
            /\ tokenizer' = tokenizer
            /\ device' = device
            /\ readiness' = readiness ]_vars

\* generate raised for a request handled after a successful load
C8_Witness ==
  /\ last.op = "paraphrase"
  /\ last.status = 500
  /\ last.raised = StageError("generate")
  /\ last.readiness = "Ready"

\* C9: a successful paraphrase with num_return_sequences = n returns exactly
\* n paraphrases, the i-th being the decoding of the i-th generated sequence,
\* with original_text equal to the request text and the process device.
C9_ParaphrasesInGenerationOrder ==
  (last.op = "paraphrase" /\ last.status = 200) =>
    /\ Len(last.response.paraphrases) = last.req.num_return_sequences
    /\ Len(last.outputs) = last.req.num_return_sequences
    /\ \A i \in 1..Len(last.outputs) :
         last.response.paraphrases[i] = Decode(last.outputs[i])
    /\ last.response.original_text = last.req.text
    /\ last.response.device = device

\* two different sequences were generated and returned
C9_Witness ==
  /\ last.op = "paraphrase"
  /\ last.status = 200
  /\ last.req.num_return_sequences = 2
  /\ last.outputs[1] # last.outputs[2]
  /\ last.req.text = <<" ", "a", "\t">>

\* C10: health can be answered in every state, always with status "healthy"
\* and the fields model_loaded, device and cuda_available, and it changes
\* nothing of the shared state or of the loader.
C10_HealthAlwaysSucceeds ==
  /\ [](  /\ ENABLED health
          /\ last.op = "health" =>
               /\ last.status = 200
               /\ last.snapshot.status = "healthy"
               /\ DOMAIN last.snapshot =
                    {"status", "model_loaded", "device", "cuda_available"}
               /\ last.snapshot.device = device
               /\ last.snapshot.cuda_available = cuda_available
               /\ last.raised = <<>> )
  /\ [][ (last' # last /\ last'.op = "health") =>
            UNCHANGED <<shared, loader>> ]_vars

\* health answered while the loader sleeps between two attempts
C10_Witness ==
  /\ last.op = "health"
  /\ last.status = 200
  /\ pc["startup"] = "sleep"
  /\ ~last.snapshot.model_loaded

\* ------------------------------------------------------------ TextValidator
\* class TextValidator (src/test.py).  A character is its code point; a
\* string is a sequence of code points.

\* longest string given to the validator
MaxTextLen == 2
\* number of filter_text applications in a behaviour
MaxFilters == 2

\* The characters of the validator's inputs: NUL, TAB, VT, FS, space, ",",
\* "1", "<", "a", and the Cyrillic letter ya.
Chars == {0, 9, 11, 28, 32, 44, 49, 60, 97, 1103}

Strings == UNION { [1..n -> Chars] : n \in 0..MaxTextLen }

\* r'[а-яА-ЯёЁ]'
Cyrillic == (1072..1103) \cup (1040..1071) \cup {1105, 1025}
\* r'[a-zA-Z]'
Latin == (97..122) \cup (65..90)
\* r'[0-9]'
Digits == 48..57
\* r'[\s]': the characters re matches as whitespace in a str pattern
Space ==
  (9..13) \cup (28..32) \cup {133, 160, 5760} \cup (8192..8202)
    \cup {8232, 8233, 8239, 8287, 12288}
\* r'[.,!?;:\-—–"\'«»„"„]'
Punctuation == {46, 44, 33, 63, 59, 58, 45, 8212, 8211, 34, 39, 171, 187, 8222}

ALLOWED_PATTERNS == <<Cyrillic, Latin, Digits, Space, Punctuation>>

FORBIDDEN_CHARS == {0, 1, 2, 3, 4, 5, 6, 7, 8, 11, 12, 14}

\* the faulty variant: the punctuation pattern is missing
IsValidCharNoPunctuation(char) ==
  \E k \in 1..(Len(ALLOWED_PATTERNS) - 1) : char \in ALLOWED_PATTERNS[k]

\* TextValidator._is_valid_char: some pattern matches the character
IsValidChar(char) ==
  \E k \in 1..Len(ALLOWED_PATTERNS) : char \in ALLOWED_PATTERNS[k]

\* TextValidator.is_valid_text
IsValidText(text) ==
  IF text = <<>> THEN FALSE
  ELSE IF \E i \in 1..Len(text) : text[i] \in FORBIDDEN_CHARS THEN FALSE
  ELSE \A i \in 1..Len(text) : IsValidChar(text[i])

RECURSIVE Reverse(_)
Reverse(s) == IF s = <<>> THEN <<>> ELSE Append(Reverse(Tail(s)), Head(s))

RECURSIVE KeepValid(_)
KeepValid(text) ==
  IF text = <<>> THEN <<>>
  ELSE (IF IsValidChar(Head(text)) THEN <<Head(text)>> ELSE <<>>) \o KeepValid(Tail(text))

\* the faulty variant: the kept characters come out in reverse order
FilterTextReversed(text) == Reverse(KeepValid(text))

\* TextValidator.filter_text: ''.join(char for char in text if _is_valid_char(char))
FilterText(text) == KeepValid(text)

\* TextValidator.is_valid_text(v_text) is called
is_valid_text ==
  /\ v_valid' = (IF IsValidText(v_text) THEN "True" ELSE "False")
  /\ UNCHANGED <<v_text, v_source, v_filters, shared, loader, last>>

\* v_text = TextValidator.filter_text(v_text)
filter_text ==
  /\ v_filters < MaxFilters
  /\ v_source' = v_text
  /\ v_text' = FilterText(v_text)
  /\ v_valid' = "none"
  /\ v_filters' = v_filters + 1
  /\ UNCHANGED <<shared, loader, last>>

\* The validator is handed any string; the service is as after import.
ValidatorInit ==
  /\ InitService
  /\ v_text \in Strings
  /\ v_source = <<>>
  /\ v_valid = "none"
  /\ v_filters = 0

ValidatorNext ==
  \/ is_valid_text
  \/ filter_text

ValidatorSpec == ValidatorInit /\ [][ValidatorNext]_vars

\* ------------------------------------------------- claims on TextValidator
\* the ASCII control characters, and the ones accepted as whitespace
\* (tab, line feed, carriage return)
AsciiControl == (0..31) \cup {127}
AcceptedControl == {9, 10, 13}

Checked == v_valid # "none"

\* C11: whenever filter_text returns a non-empty string, is_valid_text of
\* that string is True.
C11_FilteredIsValid ==
  (v_filters >= 1 /\ v_text # <<>> /\ Checked) => v_valid = "True"

C13_BlankIsInvalid ==
  (Checked /\ \A i \in 1..Len(v_text) : v_text[i] = 32) => v_valid = "False"

\* C14: a non-empty string with an ASCII control character other than tab,
\* line feed and carriage return is invalid.
C14_ControlCharInvalid ==
  ( /\ Checked
    /\ v_text # <<>>
    /\ \E i \in 1..Len(v_text) : v_text[i] \in AsciiControl \ AcceptedControl ) =>
    v_valid = "False"

\* C15: filter_text returns the characters of its argument that pass the
\* per-character test, in their order, and applying it to its own result
\* changes nothing.
C15_FilterIdempotentOrdered ==
  /\ v_filters >= 1 => v_text = SelectSeq(v_source, LAMBDA c : IsValidChar(c))
  /\ v_filters >= 2 => v_text = v_source

\* a second filter_text of a two-character result
C15_Witness ==
  /\ v_filters = 2
  /\ v_text = <<97, 44>>
  /\ v_source = <<97, 44>>

\* ----------------------------------------------------- claims, continued
\* the requests built from a body with only text
TextOnlyRequests == { FromBody([text |-> text]) : text \in Texts }

\* C16: a request built with only text has num_return_sequences 1,
\* num_beams 5 and temperature 1.0, and generate is called with these.
C16_DefaultsReachGenerate ==
  /\ \A r \in TextOnlyRequests :
       /\ r.num_return_sequences = 1
       /\ r.num_beams = 5
       /\ r.temperature = 10
  /\ (last.op = "paraphrase" /\ last.gen_invoked /\ last.req \in TextOnlyRequests) =>
       /\ last.gen_args.num_return_sequences = 1
       /\ last.gen_args.num_beams = 5
       /\ last.gen_args.temperature = 10

\* a text-only request went through generate and was answered
C16_Witness ==
  /\ last.op = "paraphrase"
  /\ last.status = 200
  /\ last.gen_invoked
  /\ last.req = FromBody([text |-> <<"a">>])

\* C17: once the global model is set, no later step replaces or mutates it.
C17_HandleImmutable ==
  [][model # None => model' = model]_vars

\* The loader alone: the statements of load_model, each of which completes
\* (a library call returns or raises, a sleep ends).
LoaderNext ==
  \/ \E t \in Tasks : load_model(t)
  \/ \E t \in Tasks : fetch_tokenizer(t)
  \/ \E t \in Tasks : fetch_model(t)
  \/ \E t \in Tasks : to_device(t)
  \/ \E t \in Tasks : eval(t)
  \/ \E t \in Tasks : load_return(t)
  \/ \E t \in Tasks : sleep_done(t)

LoaderSpec == Init /\ [][LoaderNext]_vars /\ WF_vars(LoaderNext)

\* C18: load_model makes at most 3 attempts and at most 2 sleeps, sleeps only
\* between two attempts, the first sleep is 5 and each later one the double
\* of the one before; it ends, either returning with model and tokenizer set
\* or raising the exception of its last attempt.
C18_BoundedRetries ==
  /\ [](\A t \in Tasks :
          /\ attempts[t] <= 3
          /\ Len(sleeps[t]) <= 2
          /\ \A i \in 1..Len(sleeps[t]) :
               sleeps[t][i] = (IF i = 1 THEN 5 ELSE 2 * sleeps[t][i - 1])
          /\ Len(sleeps[t]) =
               (IF pc[t] = "sleep" THEN attempts[t]
                ELSE IF attempts[t] = 0 THEN 0 ELSE attempts[t] - 1)
          /\ pc[t] = "sleep" => attempts[t] < 3
          /\ result[t] = "returned" => (model # None /\ tokenizer # None)
          /\ result[t] = "raised" =>
               /\ Len(failed[t]) = attempts[t]
               /\ error[t] = <<failed[t][attempts[t]], "failed">>)
  /\ \A t \in Tasks :
       (result[t] = "running") ~> (result[t] \in {"returned", "raised"})

\* three failed attempts, two sleeps, and the last exception raised
C18_Witness ==
  /\ result["startup"] = "raised"
  /\ failed["startup"] = <<"fetch_tokenizer", "fetch_model", "eval">>
  /\ sleeps["startup"] = <<5, 10>>
  /\ error["startup"] = <<"eval", "failed">>

\* C19: once the readiness is Failed it stays Failed, and once it is Ready
\* it stays Ready, whatever is called afterwards.
C19_ReadinessTerminal ==
  [][ /\ readiness = "Failed" => readiness' = "Failed"
      /\ readiness = "Ready" => readiness' = "Ready" ]_vars

\* C20: generate is only ever called with a positive num_return_sequences,
\* a positive num_beams and a positive temperature.
C20_GenerateArgsPositive ==
  (last.op = "paraphrase" /\ last.gen_invoked) =>
    /\ last.gen_args.num_return_sequences > 0
    /\ last.gen_args.num_beams > 0
    /\ last.gen_args.temperature > 0

\* ------------------------------------------------- two callers of load_model
\* load_model() is a plain function without a lock (lines 19-50): the startup
\* hook and any other caller run the same statements on the same globals.
ConcNext ==
  \/ \E t \in AllTasks : load_model(t)
  \/ \E t \in AllTasks : fetch_tokenizer(t)
  \/ \E t \in AllTasks : fetch_model(t)
  \/ \E t \in AllTasks : to_device(t)
  \/ \E t \in AllTasks : eval(t)
  \/ \E t \in AllTasks : load_return(t)
  \/ \E t \in AllTasks : sleep_done(t)

ConcSpec == Init /\ [][ConcNext]_vars

\* the tasks that are inside the retry loop of load_model
Loading == { t \in AllTasks : pc[t] # "idle" }

\* C21: invocations of load_model by two tasks are serialized: at most one
\* of them is loading at a time, so only one fetch of tokenizer and model
\* proceeds and both callers observe the same final handle.
C21_LoadsSerialized == Cardinality(Loading) <= 1

\* C22: whenever model is set, tokenizer is set too; so when health reports
\* model_loaded true no paraphrase request with non-blank text is answered
\* 503, and when it reports false every such request is answered 503.
C22_ReadinessPredicatesAgree ==
  /\ model # None => tokenizer # None
  /\ HealthSnapshot(model, device, cuda_available).model_loaded =>
       ~ ENABLED (\E req \in Requests :
                    /\ ~BlankText(req.text)
                    /\ paraphrase(req)
                    /\ last'.status = 503)
  /\ ~HealthSnapshot(model, device, cuda_available).model_loaded =>
       ~ ENABLED (\E req \in Requests :
                    /\ ~BlankText(req.text)
                    /\ paraphrase(req)
                    /\ last'.status # 503)

\* health reported "not loaded" while the tokenizer was already fetched
C22_Witness ==
  /\ last.op = "health"
  /\ ~last.snapshot.model_loaded
  /\ tokenizer # None
  /\ model = None

====
